---- MODULE Spec2Model ----
(***************************************************************************)
(* Model of the log aggregator (aggregator/src/main.py): the /publish      *)
(* request handlers that push events on the Redis list "event_queue", the  *)
(* pool of consumer workers that pop a message and insert it into the      *)
(* Postgres table "events" with ON CONFLICT (topic, event_id) DO NOTHING,  *)
(* the in-memory counters in "stats", and the GET /events query.           *)
(***************************************************************************)
EXTENDS Integers, Sequences, FiniteSets, Bags, TLC

(***************************************************************************)
(* Bounds of the model.                                                    *)
(***************************************************************************)
MaxBatch == 2        \* events in one request body
MaxEvents == 2       \* events pushed on the queue over a whole run
MaxRows == 52        \* rows of the table when GET /events is checked
MaxGateEvents == 3   \* events pushed over a run of the publish handlers alone
MaxFrameEvents == 1  \* events pushed over a run of all four endpoints and the workers

\* for i in range(5): asyncio.create_task(start_consumer())
NumWorkers == 5

(***************************************************************************)
(* JSON values of a request body.  A field of an object is a typed value;  *)
(* a field that is absent has type "missing".                              *)
(***************************************************************************)
JStr(s) == [t |-> "str", v |-> s]
JInt(s) == [t |-> "int", v |-> s]
JDict(s) == [t |-> "dict", v |-> s]
JMissing == [t |-> "missing", v |-> ""]

Topics == {"t1", "t2"}
EventIds == {"a"}
\* ISO-8601 strings the callers send, and one string that is not a date.
TimestampStrings == {"2024-01-01T00:00:00+00:00", "2024-01-02T00:00:00+07:00", "not-a-date"}
Sources == {"s"}
Payloads == {"{}"}

\* datetime.fromisoformat: the strings it parses, as (day number, utc offset).
IsoDates == [x \in {"2024-01-01T00:00:00+00:00", "2024-01-02T00:00:00+07:00"} |->
               IF x = "2024-01-01T00:00:00+00:00" THEN [wall |-> 1, offset |-> 0]
                                                  ELSE [wall |-> 2, offset |-> 7]]

\* A validated LogEvent (class LogEvent).
LogEvent == {e \in [topic : Topics, event_id : EventIds, timestamp : TimestampStrings,
                     source : Sources, payload : Payloads] :
                e.topic = "t1" \/ e.timestamp = "2024-01-01T00:00:00+00:00"}

NoEvent == [topic |-> "", event_id |-> "", timestamp |-> "", source |-> "", payload |-> ""]

\* The JSON object a caller sends for event e.
ToJson(e) == [topic |-> JStr(e.topic), event_id |-> JStr(e.event_id),
              timestamp |-> JStr(e.timestamp), source |-> JStr(e.source),
              payload |-> JDict(e.payload)]

\* JSON objects that are no LogEvent: one without the topic field
\* (generate_event(invalid_field=True)) and one whose topic is an int.
SampleEvent == [topic |-> "t1", event_id |-> "a", timestamp |-> "2024-01-01T00:00:00+00:00",
                source |-> "s", payload |-> "{}"]
NoTopic == [ToJson(SampleEvent) EXCEPT !.topic = JMissing]
IntTopic == [ToJson(SampleEvent) EXCEPT !.topic = JInt("12345")]

RawEvents == {ToJson(e) : e \in LogEvent} \cup {NoTopic, IntTopic}

\* pydantic's validation of one object against LogEvent.
IsLogEvent(o) ==
    /\ o.topic.t = "str"
    /\ o.event_id.t = "str"
    /\ o.timestamp.t = "str"
    /\ o.source.t = "str"
    /\ o.payload.t = "dict"

ParseLogEvent(o) == [topic |-> o.topic.v, event_id |-> o.event_id.v,
                     timestamp |-> o.timestamp.v, source |-> o.source.v,
                     payload |-> o.payload.v]

(***************************************************************************)
(* Request bodies of POST /publish: one JSON object, or an array of them.  *)
(***************************************************************************)
SeqsUpTo(S, n) == UNION {[1..k -> S] : k \in 0..n}

Bodies == {[list |-> FALSE, items |-> <<o>>] : o \in RawEvents}
          \cup {[list |-> TRUE, items |-> s] : s \in SeqsUpTo(RawEvents, MaxBatch)}

NoBody == [list |-> TRUE, items |-> <<>>]

\* A validation that looks at the first object of the body only.
ValidBodyFirstOnly(body) == body.items = <<>> \/ IsLogEvent(body.items[1])

\* FastAPI's validation of the body against Union[LogEvent, List[LogEvent]].
ValidBody(body) == \A i \in DOMAIN body.items : IsLogEvent(body.items[i])

\* events_to_process = event if isinstance(event, list) else [event]
EventsToProcess(body) == [i \in DOMAIN body.items |-> ParseLogEvent(body.items[i])]

\* The bodies that are rejected, and those that reach the handler.
InvalidBodies == {body \in Bodies : ~ValidBody(body)}
ValidBodies == {body \in Bodies : ValidBody(body)}
\* The valid bodies of n events.
ValidBodiesOfLen == [n \in 0..MaxBatch |-> {body \in ValidBodies : Len(body.items) = n}]

\* e.model_dump_json() and json.loads(raw_data): the message on the queue is
\* the JSON text of the event.
ModelDumpJson(e) == [fmt |-> "json", obj |-> e]
JsonLoads(m) == m.obj
NoMsg == [fmt |-> "none", obj |-> NoEvent]

\* json.loads(raw_data) returns: the message is JSON text.
IsJson(m) == m.fmt = "json"
\* Text on the queue that is no JSON: json.loads raises.
NotJson == [fmt |-> "text", obj |-> NoEvent]
\* A JSON object on the queue without the timestamp field: event_data['timestamp']
\* raises KeyError.
NoTimestamp == [fmt |-> "json",
                obj |-> [topic |-> "t1", event_id |-> "a", source |-> "s", payload |-> "{}"]]
\* The loaded object has every field the worker reads.
Complete(e) == DOMAIN e = DOMAIN NoEvent

JsonLoadsAll(ms) == [i \in DOMAIN ms |-> JsonLoads(ms[i])]

\* The messages of a request with the last event first.
PushedReversed(body) ==
    [i \in DOMAIN body.items |->
       ModelDumpJson(EventsToProcess(body)[Len(body.items) + 1 - i])]

\* The messages one request pushes, in request order.
Pushed(body) == [i \in DOMAIN body.items |-> ModelDumpJson(EventsToProcess(body)[i])]

(***************************************************************************)
(* The deduplication key and the row a worker inserts.                     *)
(***************************************************************************)
Keys == Topics \X EventIds
KeyOf(e) == <<e.topic, e.event_id>>

\* datetime.fromisoformat(s) succeeds
IsIso(s) == s \in DOMAIN IsoDates
\* datetime.fromisoformat(s).replace(tzinfo=None): the offset is dropped, the
\* wall-clock value is kept.
TsVal(s) == IsoDates[s].wall

\* The worker gets as far as the INSERT: every field is there and the
\* timestamp parses.
Parses(e) == Complete(e) /\ IsIso(e.timestamp)

Row(e) == [topic |-> e.topic, event_id |-> e.event_id, timestamp |-> TsVal(e.timestamp),
           source |-> e.source, payload |-> e.payload]

VARIABLES
    queue,      \* the Redis list "event_queue", head first
    events,     \* the committed rows of table events, in insertion order
    stats,      \* the in-memory counters
    workers,    \* the consumer tasks: a bag of task states (the tasks have no names)
    inflight,   \* the /publish requests awaiting the reply of pipe.execute(): a bag of bodies
    response,   \* the response to the POST /publish answered last
    listing,    \* the GET /events request answered last, and its rows
    report,     \* the GET /stats request under way or answered last
    life,       \* lifespan: its phase, the attempts made, db_pool and redis_client
    acct        \* history per key: what happened to the messages of that key

vars == <<queue, events, stats, workers, inflight, response, listing, report, life, acct>>

NoResponse == [status |-> 0, count |-> 0]
\* topic: Optional[str] = None
NoTopicParam == [given |-> FALSE, value |-> ""]
NoListing == [answered |-> FALSE, topic |-> NoTopicParam, rows |-> <<>>]
NoReport == [pc |-> "none", topics |-> {}, received |-> 0, unique_processed |-> 0,
             duplicate_dropped |-> 0]
\* The state lifespan yields in when its first attempt succeeded.
Serving == [phase |-> "serving", attempt |-> 1, ready |-> TRUE, pool |-> "open",
            client |-> "open"]
Idle == [pc |-> "blpop", msg |-> NoMsg, result |-> "none"]
NoAcct == [enq |-> 0, acked |-> 0, known |-> 0, ok |-> 0, dup |-> 0, err |-> 0, cfail |-> 0,
           bad |-> 0, ins |-> 0, sup |-> 0]

\* n copies of x
Copies(x, n) == IF n = 0 THEN EmptyBag ELSE [y \in {x} |-> n]
\* bag b with one x replaced by y
Move(b, x, y) == (b (-) Copies(x, 1)) (+) Copies(y, 1)

Init ==
    /\ queue = <<>>
    /\ events = <<>>
    /\ stats = [received |-> 0, processed_success |-> 0, duplicates_dropped |-> 0]
    /\ workers = Copies(Idle, NumWorkers)
    /\ inflight = EmptyBag
    /\ response = NoResponse
    /\ listing = NoListing
    /\ report = NoReport
    /\ life = Serving
    /\ acct = [k \in Keys |-> NoAcct]

RECURSIVE SumOver(_, _)
SumOver(f, S) == IF S = {} THEN 0
                 ELSE LET x == CHOOSE y \in S : TRUE IN f[x] + SumOver(f, S \ {x})

\* Number of messages pushed so far.
TotalEnq == SumOver([k \in Keys |-> acct[k].enq], Keys)

\* Number of items of sequence s whose key is k.
CountKey(s, k) == Cardinality({i \in DOMAIN s : KeyOf(s[i]) = k})

HasRow(k) == \E i \in DOMAIN events : KeyOf(events[i]) = k

(***************************************************************************)
(* POST /publish (publish_event).  The handler awaits pipe.execute(): the  *)
(* MULTI/EXEC transaction is applied by the queue in one step, and the     *)
(* handler goes on when the reply arrives.  A pipeline without commands    *)
(* returns at once.                                                        *)
(***************************************************************************)
\* The counter is incremented once per request.
StatsAfterPublishOne(s, evs) == [s EXCEPT !.received = @ + 1]

\* stats["received"] += len(events_to_process)
StatsAfterPublish(s, evs) == [s EXCEPT !.received = @ + Len(evs)]

\* A handler that looks the events up in the table and refuses stored keys.
QueuedUnlessStored(evs) ==
    IF \E i \in DOMAIN evs : HasRow(KeyOf(evs[i]))
    THEN [status |-> 409, count |-> 0]
    ELSE [status |-> 200, count |-> Len(evs)]

\* return {"status": "queued", "count": len(events_to_process)}
Queued(evs) == [status |-> 200, count |-> Len(evs)]

\* The body is no LogEvent and no list of LogEvents: 422, the handler is not run.
PublishInvalid ==
    /\ InvalidBodies # {}
    /\ response' = [status |-> 422, count |-> 0]
    /\ UNCHANGED <<life, report, listing, queue, events, stats, workers, inflight, acct>>

\* The pipeline's transaction is applied: every event of the request is
\* appended to the tail of the queue.
PublishExecute(body) ==
    /\ body \in ValidBodies
    /\ body.items # <<>>
    /\ queue' = queue \o Pushed(body)
    /\ inflight' = inflight (+) Copies(body, 1)
    /\ acct' = [k \in Keys |->
                 [acct[k] EXCEPT !.enq = @ + CountKey(JsonLoadsAll(Pushed(body)), k),
                                 !.known = @ + IF HasRow(k)
                                               THEN CountKey(JsonLoadsAll(Pushed(body)), k)
                                               ELSE 0]]
    /\ UNCHANGED <<life, report, listing, events, stats, workers, response>>

\* The reply of the transaction arrives: the counter is updated, 200 is returned.
PublishReturn(body) ==
    /\ BagIn(body, inflight)
    /\ LET evs == EventsToProcess(body) IN
         /\ stats' = StatsAfterPublish(stats, evs)
         /\ response' = Queued(evs)
         /\ acct' = [k \in Keys |-> [acct[k] EXCEPT !.acked = @ + CountKey(evs, k)]]
    /\ inflight' = inflight (-) Copies(body, 1)
    /\ UNCHANGED <<life, report, listing, queue, events, workers>>

\* An empty list: the pipeline has no command, execute() returns at once.
PublishNothing(body) ==
    /\ body \in ValidBodies
    /\ body.items = <<>>
    /\ LET evs == EventsToProcess(body) IN
         /\ stats' = StatsAfterPublish(stats, evs)
         /\ response' = Queued(evs)
    /\ UNCHANGED <<life, report, listing, queue, events, workers, inflight, acct>>

\* A handler that counts the events before it awaits the reply.
PublishReplyLostCounted(body) ==
    /\ BagIn(body, inflight)
    /\ stats' = [stats EXCEPT !.received = @ + Len(body.items)]
    /\ response' = [status |-> 500, count |-> 0]
    /\ inflight' = inflight (-) Copies(body, 1)
    /\ UNCHANGED <<life, report, listing, queue, events, workers, acct>>

\* pipe.execute() raises after the queue applied the transaction (the reply
\* is lost, the read times out): HTTPException(500).
PublishReplyLost(body) ==
    /\ BagIn(body, inflight)
    /\ response' = [status |-> 500, count |-> 0]
    /\ inflight' = inflight (-) Copies(body, 1)
    /\ UNCHANGED <<life, report, listing, queue, events, stats, workers, acct>>

\* pipe.execute() raises before the queue saw the transaction (the queue is
\* unreachable): HTTPException(500).
PublishUnreachable ==
    /\ ValidBodiesOfLen[1] # {}
    /\ response' = [status |-> 500, count |-> 0]
    /\ UNCHANGED <<life, report, listing, queue, events, stats, workers, inflight, acct>>

(***************************************************************************)
(* The consumer task (start_consumer).  t is the state of the task that    *)
(* takes the step.                                                         *)
(***************************************************************************)
\* msg = await redis_client.blpop("event_queue", timeout=5)
BlPop(t) ==
    /\ BagIn(t, workers)
    /\ t.pc = "blpop"
    /\ queue # <<>>
    /\ IsJson(Head(queue))
    /\ workers' = Move(workers, t, [pc |-> "insert", msg |-> Head(queue), result |-> "none"])
    /\ queue' = Tail(queue)
    /\ UNCHANGED <<life, report, listing, events, stats, inflight, response, acct>>

\* The popped text is no JSON: json.loads raises before anything is stored,
\* the outer except logs it and the loop goes on after the sleep.
BlPopNotJson(t) ==
    /\ BagIn(t, workers)
    /\ t.pc = "blpop"
    /\ queue # <<>>
    /\ ~IsJson(Head(queue))
    /\ queue' = Tail(queue)
    /\ acct' = [acct EXCEPT ![KeyOf(JsonLoads(Head(queue)))].err = @ + 1,
                            ![KeyOf(JsonLoads(Head(queue)))].bad = @ + 1]
    /\ UNCHANGED <<life, report, listing, events, stats, workers, inflight, response>>

\* Task state t holds a row that is inserted and not yet committed.
Uncommitted(t) == t.pc = "commit" /\ t.result = "INSERT 0 1"

\* A uniqueness constraint on event_id alone.
ConflictByEventId(e) == \E i \in DOMAIN events : events[i].event_id = e.event_id

\* CONSTRAINT unique_event_id UNIQUE (topic, event_id): a committed row the
\* insert of e conflicts with.
Conflict(e) == \E i \in DOMAIN events :
                   events[i].topic = e.topic /\ events[i].event_id = e.event_id

\* Inserts that do not see the uncommitted rows of other transactions.
MustWaitNever(e) == FALSE

\* An insert waits while another transaction holds an uncommitted row of its key.
MustWait(e) == \E o \in BagToSet(workers) :
                   Uncommitted(o) /\ KeyOf(JsonLoads(o.msg)) = KeyOf(e)

\* INSERT ... ON CONFLICT (topic, event_id) DO NOTHING: the command tag.
InsertTag(e) == IF Conflict(e) THEN "INSERT 0 0" ELSE "INSERT 0 1"

\* The two branches exchanged.
StatsAfterInsertSwapped(s, result) ==
    IF result = "INSERT 0 1"
    THEN [s EXCEPT !.duplicates_dropped = @ + 1]
    ELSE [s EXCEPT !.processed_success = @ + 1]

\* An increment that writes back the value read when the process started.
StatsAfterInsertStale(s, result) ==
    IF result = "INSERT 0 1"
    THEN [s EXCEPT !.processed_success = 0 + 1]
    ELSE [s EXCEPT !.duplicates_dropped = 0 + 1]

\* if result == "INSERT 0 1": processed_success += 1 else: duplicates_dropped += 1
StatsAfterInsert(s, result) ==
    IF result = "INSERT 0 1"
    THEN [s EXCEPT !.processed_success = @ + 1]
    ELSE [s EXCEPT !.duplicates_dropped = @ + 1]

\* The history of key k after a step that takes the counters from s to t.
Counted(k, s, t) ==
    [acct[k] EXCEPT !.ok = @ + (t.processed_success - s.processed_success),
                    !.dup = @ + (t.duplicates_dropped - s.duplicates_dropped)]

\* The timestamp parses and the INSERT is executed; the counter is updated
\* before the transaction block is left.
Insert(t) ==
    /\ BagIn(t, workers)
    /\ t.pc = "insert"
    /\ LET e == JsonLoads(t.msg) IN
         /\ Parses(e)
         /\ ~MustWait(e)
         /\ workers' = Move(workers, t, [t EXCEPT !.pc = "commit", !.result = InsertTag(e)])
         /\ stats' = StatsAfterInsert(stats, InsertTag(e))
         /\ acct' = [acct EXCEPT ![KeyOf(e)] =
                        [Counted(KeyOf(e), stats, stats') EXCEPT
                           !.ins = @ + IF InsertTag(e) = "INSERT 0 1" THEN 1 ELSE 0,
                           !.sup = @ + IF InsertTag(e) = "INSERT 0 1" THEN 0 ELSE 1]]
    /\ UNCHANGED <<life, report, listing, queue, events, inflight, response>>

\* A worker that puts the message it cannot parse back on the queue.
InsertBadTimestampRequeue(t) ==
    /\ BagIn(t, workers)
    /\ t.pc = "insert"
    /\ LET e == JsonLoads(t.msg) IN
         /\ ~Parses(e)
         /\ acct[KeyOf(e)].bad = 0
         /\ acct' = [acct EXCEPT ![KeyOf(e)].err = @ + 1, ![KeyOf(e)].bad = @ + 1]
    /\ queue' = Append(queue, t.msg)
    /\ workers' = Move(workers, t, Idle)
    /\ UNCHANGED <<life, report, listing, events, stats, inflight, response>>

\* event_data['timestamp'] or datetime.fromisoformat raises: caught by the
\* inner except, the transaction block is left with nothing inserted.
InsertBadTimestamp(t) ==
    /\ BagIn(t, workers)
    /\ t.pc = "insert"
    /\ LET e == JsonLoads(t.msg) IN
         /\ ~Parses(e)
         /\ acct' = [acct EXCEPT ![KeyOf(e)].err = @ + 1, ![KeyOf(e)].bad = @ + 1]
    /\ workers' = Move(workers, t, Idle)
    /\ UNCHANGED <<life, report, listing, queue, events, stats, inflight, response>>

\* The storage layer fails before or in the INSERT (acquire, BEGIN or
\* conn.execute raise): logged, nothing inserted, back to the pop.
InsertError(t) ==
    /\ BagIn(t, workers)
    /\ t.pc = "insert"
    /\ acct' = [acct EXCEPT ![KeyOf(JsonLoads(t.msg))].err = @ + 1]
    /\ workers' = Move(workers, t, Idle)
    /\ UNCHANGED <<life, report, listing, queue, events, stats, inflight, response>>

\* A commit for ON CONFLICT ... DO UPDATE: the stored row of the key is
\* replaced by the row of the later message.
CommitUpsert(t) ==
    /\ BagIn(t, workers)
    /\ t.pc = "commit"
    /\ events' = IF t.result = "INSERT 0 1"
                 THEN Append(events, Row(JsonLoads(t.msg)))
                 ELSE [i \in DOMAIN events |->
                         IF KeyOf(events[i]) = KeyOf(JsonLoads(t.msg))
                         THEN Row(JsonLoads(t.msg)) ELSE events[i]]
    /\ workers' = Move(workers, t, Idle)
    /\ UNCHANGED <<life, report, listing, queue, stats, inflight, response, acct>>

\* The transaction block is left: COMMIT.
Commit(t) ==
    /\ BagIn(t, workers)
    /\ t.pc = "commit"
    /\ events' = IF t.result = "INSERT 0 1"
                 THEN Append(events, Row(JsonLoads(t.msg)))
                 ELSE events
    /\ workers' = Move(workers, t, Idle)
    /\ UNCHANGED <<life, report, listing, queue, stats, inflight, response, acct>>

\* COMMIT fails (the connection is lost): the transaction is rolled back, the
\* exception reaches the outer except, the loop goes on after the sleep.
CommitFail(t) ==
    /\ BagIn(t, workers)
    /\ t.pc = "commit"
    /\ acct' = [acct EXCEPT ![KeyOf(JsonLoads(t.msg))].cfail = @ + 1]
    /\ workers' = Move(workers, t, Idle)
    /\ UNCHANGED <<life, report, listing, queue, events, stats, inflight, response>>

Next ==
    \/ PublishInvalid
    \/ \E n \in {m \in 1..MaxBatch : TotalEnq + m <= MaxEvents} :
          \E body \in ValidBodiesOfLen[n] : PublishExecute(body)
    \/ \E body \in ValidBodiesOfLen[0] : PublishNothing(body)
    \/ \E body \in BagToSet(inflight) : PublishReturn(body)
    \/ \E body \in BagToSet(inflight) : PublishReplyLost(body)
    \/ PublishUnreachable
    \/ \E t \in BagToSet(workers) : BlPop(t)
    \/ \E t \in BagToSet(workers) : Insert(t)
    \/ \E t \in BagToSet(workers) : InsertBadTimestamp(t)
    \/ \E t \in BagToSet(workers) : InsertError(t)
    \/ \E t \in BagToSet(workers) : Commit(t)
    \/ \E t \in BagToSet(workers) : CommitFail(t)

Spec == Init /\ [][Next]_vars

(***************************************************************************)
(* The process when neither the queue nor the storage fails: every reply   *)
(* arrives and every worker that can take a step eventually takes it.      *)
(***************************************************************************)
LiveNext ==
    \/ \E n \in {m \in 1..MaxBatch : TotalEnq + m <= MaxEvents} :
          \E body \in ValidBodiesOfLen[n] : PublishExecute(body)
    \/ \E body \in BagToSet(inflight) : PublishReturn(body)
    \/ \E t \in BagToSet(workers) : BlPop(t)
    \/ \E t \in BagToSet(workers) : Insert(t)
    \/ \E t \in BagToSet(workers) : InsertBadTimestamp(t)
    \/ \E t \in BagToSet(workers) : Commit(t)

LiveSpec ==
    /\ Init
    /\ [][LiveNext]_vars
    /\ WF_vars(\E body \in BagToSet(inflight) : PublishReturn(body))
    /\ WF_vars(\E t \in BagToSet(workers) : BlPop(t))
    /\ WF_vars(\E t \in BagToSet(workers) : Insert(t))
    /\ WF_vars(\E t \in BagToSet(workers) : InsertBadTimestamp(t))
    /\ WF_vars(\E t \in BagToSet(workers) : Commit(t))

(***************************************************************************)
(* The /publish handlers alone, with more concurrent requests.             *)
(***************************************************************************)
GateNext ==
    \/ PublishInvalid
    \/ \E n \in {m \in 1..MaxBatch : TotalEnq + m <= MaxGateEvents} :
          \E body \in ValidBodiesOfLen[n] : PublishExecute(body)
    \/ \E body \in ValidBodiesOfLen[0] : PublishNothing(body)
    \/ \E body \in BagToSet(inflight) : PublishReturn(body)
    \/ \E body \in BagToSet(inflight) : PublishReplyLost(body)
    \/ PublishUnreachable

GateSpec == Init /\ [][GateNext]_vars

(***************************************************************************)
(* The consumer pool on a queue that holds any messages: the events of     *)
(* publish requests, and text pushed on the list "event_queue" by other    *)
(* clients of the queue.                                                   *)
(***************************************************************************)
Messages == {ModelDumpJson(e) : e \in LogEvent} \cup {NotJson, NoTimestamp}

\* The key a message without one is accounted under.
NoKey == KeyOf(NoEvent)

ConsumerInit ==
    /\ queue \in SeqsUpTo(Messages, MaxEvents)
    /\ events = <<>>
    /\ stats = [received |-> 0, processed_success |-> 0, duplicates_dropped |-> 0]
    /\ workers = Copies(Idle, NumWorkers)
    /\ inflight = EmptyBag
    /\ response = NoResponse
    /\ listing = NoListing
    /\ report = NoReport
    /\ life = Serving
    /\ acct = [k \in Keys \cup {NoKey} |->
                 [NoAcct EXCEPT !.enq = CountKey(JsonLoadsAll(queue), k)]]

ConsumerNext ==
    \/ \E t \in BagToSet(workers) : BlPop(t)
    \/ \E t \in BagToSet(workers) : BlPopNotJson(t)
    \/ \E t \in BagToSet(workers) : Insert(t)
    \/ \E t \in BagToSet(workers) : InsertBadTimestamp(t)
    \/ \E t \in BagToSet(workers) : InsertError(t)
    \/ \E t \in BagToSet(workers) : Commit(t)
    \/ \E t \in BagToSet(workers) : CommitFail(t)

ConsumerSpec == ConsumerInit /\ [][ConsumerNext]_vars

(***************************************************************************)
(* lifespan: startup, the start of the consumer tasks, shutdown.  The      *)
(* queue outlives the process, so a process can start on a queue that      *)
(* holds messages.                                                         *)
(***************************************************************************)
\* for i in range(5): try: ... break
StartupAttempts == 5

Starting == [phase |-> "startup", attempt |-> 0, ready |-> FALSE, pool |-> "none",
             client |-> "none"]

\* asyncpg.create_pool raises: db_pool and redis_client keep their values,
\* the loop sleeps and goes to the next attempt.
StartupFailPool ==
    /\ life.phase = "startup"
    /\ life.attempt < StartupAttempts
    /\ life' = [life EXCEPT !.attempt = @ + 1]
    /\ UNCHANGED <<report, listing, queue, events, stats, workers, inflight, response, acct>>

\* create_pool and redis.from_url return, init_db raises: the globals are
\* set, the loop sleeps and goes to the next attempt.
StartupFailInitDb ==
    /\ life.phase = "startup"
    /\ life.attempt < StartupAttempts
    /\ life' = [life EXCEPT !.attempt = @ + 1, !.pool = "open", !.client = "open"]
    /\ UNCHANGED <<report, listing, queue, events, stats, workers, inflight, response, acct>>

\* The attempt succeeds: break, the 5 consumer tasks are created, yield.
StartupOk ==
    /\ life.phase = "startup"
    /\ life.attempt < StartupAttempts
    /\ life' = [life EXCEPT !.attempt = @ + 1, !.pool = "open", !.client = "open",
                            !.ready = TRUE, !.phase = "serving"]
    /\ workers' = workers (+) Copies(Idle, NumWorkers)
    /\ UNCHANGED <<report, listing, queue, events, stats, inflight, response, acct>>

\* range(5) is exhausted without a break: the code goes on to create the 5
\* consumer tasks and yields.
StartupExhausted ==
    /\ life.phase = "startup"
    /\ life.attempt = StartupAttempts
    /\ life' = [life EXCEPT !.phase = "serving"]
    /\ workers' = workers (+) Copies(Idle, NumWorkers)
    /\ UNCHANGED <<report, listing, queue, events, stats, inflight, response, acct>>

\* POST /publish while redis_client is None: redis_client.pipeline() raises
\* AttributeError, caught by the handler's except: HTTPException(500).
PublishNoClient ==
    /\ life.phase = "serving"
    /\ life.client = "none"
    /\ PublishUnreachable

\* After the yield: await db_pool.close() is entered.  The pool refuses new
\* acquires from now on and waits for the connections in use.  With db_pool
\* None the call raises and lifespan ends.
ShutdownBegin ==
    /\ life.phase = "serving"
    /\ life' = IF life.pool = "none"
               THEN [life EXCEPT !.phase = "stopped"]
               ELSE [life EXCEPT !.phase = "shutdown", !.pool = "closing"]
    /\ UNCHANGED <<report, listing, queue, events, stats, workers, inflight, response, acct>>

\* db_pool.close() returns once no connection is in use; await
\* redis_client.close() is entered.
PoolClosed ==
    /\ life.pool = "closing"
    /\ \A t \in BagToSet(workers) : t.pc = "blpop"
    /\ life' = [life EXCEPT !.pool = "closed"]
    /\ UNCHANGED <<report, listing, queue, events, stats, workers, inflight, response, acct>>

\* redis_client.close() returns, lifespan ends and the process exits.
ClientClosed ==
    /\ life.phase = "shutdown"
    /\ life.pool = "closed"
    /\ life' = [life EXCEPT !.client = "closed", !.phase = "stopped"]
    /\ UNCHANGED <<report, listing, queue, events, stats, workers, inflight, response, acct>>

\* blpop returns a message while the pool is closing or closed:
\* db_pool.acquire() raises at once, the outer except logs it, the message is
\* gone and the loop goes on after the sleep.
BlPopRefused(t) ==
    /\ BagIn(t, workers)
    /\ t.pc = "blpop"
    /\ queue # <<>>
    /\ life.client = "open"
    /\ life.pool \in {"closing", "closed"}
    /\ queue' = Tail(queue)
    /\ acct' = [acct EXCEPT ![KeyOf(JsonLoads(Head(queue)))].err = @ + 1]
    /\ UNCHANGED <<life, report, listing, events, stats, workers, inflight, response>>

LifeInit ==
    /\ queue \in SeqsUpTo({ModelDumpJson(e) : e \in LogEvent}, MaxEvents)
    /\ events = <<>>
    /\ stats = [received |-> 0, processed_success |-> 0, duplicates_dropped |-> 0]
    /\ workers = EmptyBag
    /\ inflight = EmptyBag
    /\ response = NoResponse
    /\ listing = NoListing
    /\ report = NoReport
    /\ life = Starting
    /\ acct = [k \in Keys |-> [NoAcct EXCEPT !.enq = CountKey(JsonLoadsAll(queue), k)]]

\* The consumer tasks run from their creation to the exit of the process.
LifeWorkers ==
    /\ life.phase # "stopped"
    /\ \/ \E t \in BagToSet(workers) : life.client = "open" /\ life.pool = "open" /\ BlPop(t)
       \/ \E t \in BagToSet(workers) : BlPopRefused(t)
       \/ \E t \in BagToSet(workers) : Insert(t)
       \/ \E t \in BagToSet(workers) : InsertBadTimestamp(t)
       \/ \E t \in BagToSet(workers) : InsertError(t)
       \/ \E t \in BagToSet(workers) : Commit(t)
       \/ \E t \in BagToSet(workers) : CommitFail(t)

LifeNext ==
    \/ StartupFailPool
    \/ StartupFailInitDb
    \/ StartupOk
    \/ StartupExhausted
    \/ PublishNoClient
    \/ ShutdownBegin
    \/ PoolClosed
    \/ ClientClosed
    \/ LifeWorkers

LifeSpec == LifeInit /\ [][LifeNext]_vars

(***************************************************************************)
(* GET /events (get_events).                                               *)
(***************************************************************************)
\* " ORDER BY timestamp DESC LIMIT 50"
LIMIT == 50

TopicParams == {NoTopicParam} \cup {[given |-> TRUE, value |-> v] : v \in {"", "t1", "t2"}}

\* if topic: -- None and the empty string are both false
Truthy(topic) == topic.given /\ topic.value # ""

MaxTimestamp(rs) == CHOOSE m \in {rs[i].timestamp : i \in DOMAIN rs} :
                        \A i \in DOMAIN rs : rs[i].timestamp <= m

\* ORDER BY timestamp DESC; rows of equal timestamp are kept in table order,
\* one of the orders the database may return.
RECURSIVE OrderByTimestampDesc(_)
OrderByTimestampDesc(rs) ==
    IF rs = <<>> THEN <<>>
    ELSE LET m == MaxTimestamp(rs) IN
           SelectSeq(rs, LAMBDA r : r.timestamp = m)
             \o OrderByTimestampDesc(SelectSeq(rs, LAMBDA r : r.timestamp # m))

\* The rows of the query built from the topic parameter.
Select(topic) ==
    LET matching == IF Truthy(topic)
                    THEN SelectSeq(events, LAMBDA r : r.topic = topic.value)
                    ELSE events
        ordered == OrderByTimestampDesc(matching)
    IN  SubSeq(ordered, 1, IF Len(ordered) < LIMIT THEN Len(ordered) ELSE LIMIT)

GetEvents(topic) ==
    /\ listing' = [answered |-> TRUE, topic |-> topic, rows |-> Select(topic)]
    /\ UNCHANGED <<life, report, queue, events, stats, workers, inflight, response, acct>>

\* rows = await conn.fetch("SELECT DISTINCT topic FROM events")
GetStatsFetch ==
    /\ report.pc # "fetched"
    /\ report' = [NoReport EXCEPT !.pc = "fetched",
                                  !.topics = {events[i].topic : i \in DOMAIN events}]
    /\ UNCHANGED <<life, listing, queue, events, stats, workers, inflight, response, acct>>

\* A handler that clears the counters once it has reported them.
GetStatsReturnReset ==
    /\ report.pc = "fetched"
    /\ report' = [report EXCEPT !.pc = "answered",
                                !.received = stats.received,
                                !.unique_processed = stats.processed_success,
                                !.duplicate_dropped = stats.duplicates_dropped]
    /\ stats' = [received |-> 0, processed_success |-> 0, duplicates_dropped |-> 0]
    /\ UNCHANGED <<life, listing, queue, events, workers, inflight, response, acct>>

\* return {"received": stats["received"], ...}: the counters are read when
\* the rows have arrived.
GetStatsReturn ==
    /\ report.pc = "fetched"
    /\ report' = [report EXCEPT !.pc = "answered",
                                !.received = stats.received,
                                !.unique_processed = stats.processed_success,
                                !.duplicate_dropped = stats.duplicates_dropped]
    /\ UNCHANGED <<life, listing, queue, events, stats, workers, inflight, response, acct>>

\* The whole process: the four endpoints and the consumer tasks.
FrameNext ==
    \/ PublishInvalid
    \/ \E n \in {m \in 1..MaxBatch : TotalEnq + m <= MaxFrameEvents} :
          \E body \in ValidBodiesOfLen[n] : PublishExecute(body)
    \/ \E body \in ValidBodiesOfLen[0] : PublishNothing(body)
    \/ \E body \in BagToSet(inflight) : PublishReturn(body)
    \/ \E body \in BagToSet(inflight) : PublishReplyLost(body)
    \/ PublishUnreachable
    \/ \E t \in BagToSet(workers) : BlPop(t)
    \/ \E t \in BagToSet(workers) : Insert(t)
    \/ \E t \in BagToSet(workers) : InsertBadTimestamp(t)
    \/ \E t \in BagToSet(workers) : InsertError(t)
    \/ \E t \in BagToSet(workers) : Commit(t)
    \/ \E t \in BagToSet(workers) : CommitFail(t)
    \/ \E topic \in TopicParams : GetEvents(topic)
    \/ GetStatsFetch
    \/ GetStatsReturn

FrameSpec == Init /\ [][FrameNext]_vars

\* Tables the workers can have built: n rows of distinct keys, their topics
\* and timestamps following pattern p.
TableRow(i, p) ==
    [topic |-> IF (i + p) % 3 = 0 THEN "" ELSE IF (i + p) % 3 = 1 THEN "t1" ELSE "t2",
     event_id |-> ToString(i),
     timestamp |-> ((i * p) % 5) + 1,
     source |-> "s",
     payload |-> "{}"]

Tables == {[i \in 1..n |-> TableRow(i, p)] : n \in 0..MaxRows, p \in 1..3}

QueryInit ==
    /\ queue = <<>>
    /\ events \in Tables
    /\ stats = [received |-> 0, processed_success |-> 0, duplicates_dropped |-> 0]
    /\ workers = Copies(Idle, NumWorkers)
    /\ inflight = EmptyBag
    /\ response = NoResponse
    /\ listing = NoListing
    /\ report = NoReport
    /\ life = Serving
    /\ acct = [k \in Keys |-> NoAcct]

QueryNext ==
    \/ \E topic \in TopicParams : GetEvents(topic)
    \/ GetStatsFetch
    \/ GetStatsReturn

QuerySpec == QueryInit /\ [][QueryNext]_vars

(***************************************************************************)
(* Properties.                                                             *)
(***************************************************************************)
\* The queue is drained, every worker is back at its pop, no request is in flight.
Quiescent == queue = <<>> /\ workers = Copies(Idle, NumWorkers) /\ inflight = EmptyBag

\* No message of key k was dropped on an error and none of its commits failed.
NoFailure(k) == acct[k].err = 0 /\ acct[k].cfail = 0

RowsOf(k) == {i \in DOMAIN events : KeyOf(events[i]) = k}

RECURSIVE InFlightOver(_, _)
InFlightOver(k, S) ==
    IF S = {} THEN 0
    ELSE LET body == CHOOSE b \in S : TRUE IN
           CopiesIn(body, inflight) * CountKey(EventsToProcess(body), k)
             + InFlightOver(k, S \ {body})
\* Events of key k in the requests that await their reply.
InFlight(k) == InFlightOver(k, BagToSet(inflight))

TotalAcked == SumOver([k \in Keys |-> acct[k].acked], Keys)

\* C1: the table never holds two rows with the same (topic, event_id),
\* whatever was published and however the workers interleave.
C1_UniqueKey ==
    \A i, j \in DOMAIN events : KeyOf(events[i]) = KeyOf(events[j]) => i = j

\* Two messages of one key were both inserted by workers, one row is stored.
C1_Witness ==
    \E k \in Keys : acct[k].enq >= 2 /\ acct[k].ok = 1 /\ acct[k].dup >= 1 /\ HasRow(k)

\* C2: a key published K >= 1 times, all K messages inserted without error:
\* once the system is quiescent there is exactly one row of the key,
\* processed_success was incremented once for it and duplicates_dropped K-1 times.
C2_Idempotent ==
    Quiescent =>
      \A k \in Keys :
        (acct[k].enq >= 1 /\ NoFailure(k)) =>
          /\ Cardinality(RowsOf(k)) = 1
          /\ acct[k].ok = 1
          /\ acct[k].dup = acct[k].enq - 1

\* A key was published twice and both messages were processed.
C2_Witness ==
    Quiescent /\ \E k \in Keys : acct[k].enq >= 2 /\ NoFailure(k)

\* C3: at every moment received >= processed_success + duplicates_dropped.
C3_ReceivedCoversProcessed ==
    stats.received >= stats.processed_success + stats.duplicates_dropped

\* C4: two events with the same event_id and different topics, each published
\* once and inserted without error, are both stored, each counted as
\* processed_success and none as duplicates_dropped.
C4_KeyIndependence ==
    Quiescent =>
      \A k1, k2 \in Keys :
        (/\ k1 # k2 /\ k1[2] = k2[2]
         /\ acct[k1].enq = 1 /\ acct[k2].enq = 1
         /\ NoFailure(k1) /\ NoFailure(k2)) =>
          /\ \E i, j \in DOMAIN events :
               i # j /\ KeyOf(events[i]) = k1 /\ KeyOf(events[j]) = k2
          /\ acct[k1].ok = 1 /\ acct[k2].ok = 1
          /\ acct[k1].dup = 0 /\ acct[k2].dup = 0

\* Both topics hold a row of the same event_id.
C4_Witness ==
    /\ Quiescent
    /\ \E k1, k2 \in Keys :
         /\ k1 # k2 /\ k1[2] = k2[2]
         /\ acct[k1].enq = 1 /\ acct[k2].enq = 1
         /\ NoFailure(k1) /\ NoFailure(k2)

\* C5: a request of M valid events that succeeds appends exactly M messages
\* to the queue (the step that applies the push), and adds exactly M to
\* received and returns count = M (the step that returns 200).
C5_BatchAccepted ==
    [][\A body \in BagToSet(inflight) \cup BagToSet(inflight') :
         /\ CopiesIn(body, inflight') > CopiesIn(body, inflight) =>
              /\ Len(queue') = Len(queue) + Len(body.items)
              /\ SubSeq(queue', 1, Len(queue)) = queue
         /\ (CopiesIn(body, inflight') < CopiesIn(body, inflight) /\ response'.status = 200) =>
              /\ stats'.received = stats.received + Len(body.items)
              /\ response'.count = Len(body.items)]_vars

\* A batch of two events of one key was answered with count = 2.
C5_Witness ==
    /\ response = [status |-> 200, count |-> 2]
    /\ stats.received = 2
    /\ \E k \in Keys : acct[k].acked = 2

\* C6: a body with an object that is no LogEvent never reaches the handler:
\* no request in flight and no message on the queue comes from such a body,
\* and the step that answers 422 changes neither the queue nor received.
C6_InvalidRejected ==
    [][/\ \A body \in BagToSet(inflight') : \A i \in DOMAIN body.items : IsLogEvent(body.items[i])
       /\ \A i \in DOMAIN queue' : JsonLoads(queue'[i]) \in LogEvent
       /\ (response'.status = 422 /\ response' # response) =>
            (queue' = queue /\ stats' = stats /\ inflight' = inflight)]_vars

\* A request was rejected while accepted events exist.
C6_Witness == response.status = 422 /\ stats.received >= 1 /\ queue # <<>>

\* C7 as stated: no event is on the queue more often than requests holding it
\* were answered 200 (or still await their reply).
C7_FailureEnqueuesNothing ==
    \A k \in Keys : acct[k].enq <= acct[k].acked + InFlight(k)

\* C7 amended: the step that ends a request with 500 changes neither received
\* nor the queue, and received counts exactly the events of the requests
\* answered 200, which is at most the number of events pushed.
C7_FailureLeavesReceived ==
    [][/\ (/\ response'.status = 500
           /\ (response' # response \/ BagCardinality(inflight') < BagCardinality(inflight))) =>
            (stats' = stats /\ queue' = queue)
       /\ stats'.received = TotalAcked'
       /\ \A k \in Keys : acct'[k].acked <= acct'[k].enq]_vars

\* A request ended with 500 after its events were pushed.
C7_Witness ==
    response.status = 500 /\ \E k \in Keys : acct[k].enq > acct[k].acked + InFlight(k)

\* C8: the rows of GET /events?topic=T all have topic T, are stored rows in
\* descending order of timestamp, at most 50; without a topic they are the
\* newest rows of the whole table.
C8_ListEvents ==
    listing.answered =>
      LET rs == listing.rows IN
        /\ \A i \in DOMAIN rs : \E j \in DOMAIN events : events[j] = rs[i]
        /\ listing.topic.given => \A i \in DOMAIN rs : rs[i].topic = listing.topic.value
        /\ \A i, j \in DOMAIN rs : i < j => rs[i].timestamp >= rs[j].timestamp
        /\ Len(rs) <= 50
        /\ ~listing.topic.given =>
             /\ Len(rs) = IF Len(events) < 50 THEN Len(events) ELSE 50
             /\ \A j \in DOMAIN events :
                  (\A i \in DOMAIN rs : rs[i] # events[j]) =>
                    \A i \in DOMAIN rs : events[j].timestamp <= rs[i].timestamp

\* C9: a step of a publish request changes neither the table, nor the
\* workers, nor processed_success, nor duplicates_dropped, and a request
\* whose reply arrives is answered 200 with its count, stored keys or not.
C9_PublishFrame ==
    [][(inflight' # inflight \/ response' # response \/ stats'.received # stats.received) =>
         /\ events' = events
         /\ workers' = workers
         /\ stats'.processed_success = stats.processed_success
         /\ stats'.duplicates_dropped = stats.duplicates_dropped
         /\ \A body \in BagToSet(inflight) :
              (CopiesIn(body, inflight') < CopiesIn(body, inflight) /\ response'.status # 500) =>
                response' = [status |-> 200, count |-> Len(body.items)]]_vars

\* Every request was answered 200, one of them for a key already stored.
C9_Witness ==
    /\ response.status = 200
    /\ inflight = EmptyBag
    /\ \E k \in Keys : acct[k].known >= 1 /\ acct[k].acked = acct[k].enq

\* C10: the step in which a worker's insert or its transaction fails leaves
\* the table, the queue and the counters as they are, no counter was
\* incremented for the message, and the worker is back at its pop.
C10_FailureCountsNothing ==
    [][\A t \in BagToSet(workers) :
         (/\ CopiesIn(t, workers') < CopiesIn(t, workers)
          /\ \E k \in Keys : acct'[k].err + acct'[k].cfail > acct[k].err + acct[k].cfail) =>
           /\ events' = events
           /\ queue' = queue
           /\ stats' = stats
           /\ t.result = "none"
           /\ CopiesIn(Idle, workers') = CopiesIn(Idle, workers) + 1]_vars

\* C11: a worker that cannot parse the message it dequeued (no JSON, a field
\* missing, a timestamp that is no ISO date) drops it: the message is not put
\* back on the queue, the table and the counters are unchanged, no response
\* changes, and the worker is back at its pop; the queue is only ever popped.
C11_ParseFailureDropped ==
    [][/\ \A t \in BagToSet(workers) :
            (/\ CopiesIn(t, workers') < CopiesIn(t, workers)
             /\ t.pc = "insert" /\ ~Parses(JsonLoads(t.msg))) =>
              /\ queue' = queue
              /\ events' = events
              /\ stats' = stats
              /\ response' = response
              /\ CopiesIn(Idle, workers') = CopiesIn(Idle, workers) + 1
       /\ (queue # <<>> /\ ~IsJson(Head(queue)) /\ queue' # queue) =>
            /\ events' = events
            /\ stats' = stats
            /\ response' = response
            /\ workers' = workers
       /\ (queue' = queue \/ (queue # <<>> /\ queue' = Tail(queue)))
       /\ BagCardinality(workers') = NumWorkers]_vars

\* Text that is no JSON, an object without timestamp and an event whose
\* timestamp does not parse were dropped, and every worker is at its pop.
C11_Witness ==
    /\ Quiescent
    /\ acct[NoKey].bad >= 1
    /\ \E k \in Keys : acct[k].bad >= 1
    /\ events = <<>>

\* C12: the events of one publish request are appended to the tail of the
\* queue in one step, in request order: every step that makes the queue longer
\* appends the messages of exactly one request that is then in flight, all of
\* them, contiguous, behind what the queue held, and a request gets in flight
\* only by such a step.
C12_AtomicPush ==
    [][/\ Len(queue') > Len(queue) =>
            \E body \in BagToSet(inflight') :
              /\ inflight' = inflight (+) Copies(body, 1)
              /\ Len(queue') = Len(queue) + Len(body.items)
              /\ SubSeq(queue', 1, Len(queue)) = queue
              /\ \A i \in DOMAIN body.items :
                   queue'[Len(queue) + i] = ModelDumpJson(ParseLogEvent(body.items[i]))
       /\ BagCardinality(inflight') > BagCardinality(inflight) => Len(queue') > Len(queue)]_vars

\* Two requests are in flight at once, one of them a batch of two different
\* events, and the queue holds the batch unbroken before the other request.
C12_Witness ==
    \E b1, b2 \in BagToSet(inflight) :
      /\ Len(b1.items) = 2 /\ b1.items[1] # b1.items[2]
      /\ Len(b2.items) = 1
      /\ queue = Pushed(b1) \o Pushed(b2)

\* C13: no increment of a counter is lost, however handlers and workers
\* interleave: received is the number of events of the requests answered 200,
\* processed_success the number of inserts that reported a row inserted,
\* duplicates_dropped the number of inserts the conflict clause suppressed.
C13_NoLostIncrement ==
    /\ stats.received = TotalAcked
    /\ stats.processed_success = SumOver([k \in Keys |-> acct[k].ins], Keys)
    /\ stats.duplicates_dropped = SumOver([k \in Keys |-> acct[k].sup], Keys)

\* Two workers have both inserted a row and counted it while neither has
\* committed, and both events were counted as received.
C13_Witness ==
    /\ stats.processed_success = 2
    /\ events = <<>>
    /\ stats.received = 2

\* C14: the three counters start at zero and never decrease; received is
\* changed only by a step of a publish request, processed_success and
\* duplicates_dropped only by a step of a worker, and a step of GET /events or
\* GET /stats changes no counter, nor the table, nor the queue.
C14_CounterFrame ==
    /\ stats = [received |-> 0, processed_success |-> 0, duplicates_dropped |-> 0]
    /\ [][/\ stats'.received >= stats.received
          /\ stats'.processed_success >= stats.processed_success
          /\ stats'.duplicates_dropped >= stats.duplicates_dropped
          /\ stats'.received # stats.received =>
               /\ BagCardinality(inflight') < BagCardinality(inflight)
               /\ workers' = workers /\ listing' = listing /\ report' = report
          /\ (\/ stats'.processed_success # stats.processed_success
              \/ stats'.duplicates_dropped # stats.duplicates_dropped) =>
               /\ workers' # workers
               /\ inflight' = inflight /\ response' = response
               /\ listing' = listing /\ report' = report
          /\ (listing' # listing \/ report' # report) =>
               (stats' = stats /\ events' = events /\ queue' = queue)]_vars

\* GET /stats and GET /events were answered after an event was received and
\* stored, and the counters still show it.
C14_Witness ==
    /\ report.pc = "answered" /\ report.unique_processed = 1 /\ report.received = 1
    /\ listing.answered /\ Len(listing.rows) = 1
    /\ stats.received = 1 /\ stats.processed_success = 1

\* C15: once shutdown has begun to release the pool no worker dequeues a
\* message, and the pool is released only when no worker is busy with a
\* message.
C15_GracefulShutdown ==
    [][/\ life.pool \in {"closing", "closed"} => queue' = queue
       /\ life'.pool = "closed" => \A t \in BagToSet(workers') : t.pc = "blpop"]_vars

\* C16: startup makes at most 5 attempts; when none has succeeded no worker
\* is started and no request is served; when one has succeeded exactly 5
\* workers are started.
C16_StartupFatal ==
    /\ life.attempt <= 5
    /\ ~life.ready =>
         /\ workers = EmptyBag
         /\ life.phase # "serving"
         /\ response = NoResponse
    /\ (life.ready /\ life.phase = "serving") => BagCardinality(workers) = 5

\* Messages popped whose worker is back at its pop.
Finished == TotalEnq - Len(queue) - (NumWorkers - CopiesIn(Idle, workers))

\* Messages dropped on a parse error or on an error of the storage.
Dropped == SumOver([k \in Keys |-> acct[k].err + acct[k].cfail], Keys)

\* C17: every dequeued message gets exactly one outcome: in every state the
\* number of messages whose processing has finished is processed_success +
\* duplicates_dropped + the number of messages dropped on an error.
C17_OneOutcome ==
    Finished = stats.processed_success + stats.duplicates_dropped + Dropped

\* C18: processed_success never exceeds the number of committed rows, also
\* while a commit is pending and when a commit fails.
C18_CountedIsCommitted ==
    stats.processed_success <= Len(events)

\* C19: the table only grows and a committed row is never changed: every
\* step keeps each stored row at its place with its timestamp, source and
\* payload, also when a message of the same key carries other values.
C19_FirstWriterWins ==
    [][/\ Len(events') >= Len(events)
       /\ \A i \in DOMAIN events : events'[i] = events[i]]_vars

\* The insert of a message was suppressed whose key is stored with another
\* timestamp than the message carries.
C19_Witness ==
    \E t \in BagToSet(workers) : \E i \in DOMAIN events :
      /\ t.pc = "commit" /\ t.result = "INSERT 0 0"
      /\ KeyOf(events[i]) = KeyOf(JsonLoads(t.msg))
      /\ events[i].timestamp # TsVal(JsonLoads(t.msg).timestamp)

\* C20: when publishing has stopped and nothing fails, the queue eventually
\* is empty and received = processed_success + duplicates_dropped holds from
\* then on, whatever timestamp strings the accepted events carry.
C20_EventuallyProcessed ==
    <>[](/\ queue = <<>>
         /\ stats.received = stats.processed_success + stats.duplicates_dropped)
====
